---- MODULE Spec2Model ----
(***************************************************************************)
(* The constant operators of op.go: constantScalar and constantTensor, the *)
(* two leaf implementations of the Op interface.  An operator wraps a      *)
(* value v; the Scalar it wraps is a struct held by value, the Tensor it   *)
(* wraps refers to array storage.  Storage is a heap of cells, a Value is  *)
(* a handle (kind, address) into it.                                       *)
(***************************************************************************)
EXTENDS Integers, Sequences, FiniteSets, TLC

\* ------------------------------------------------------------------ bounds
MaxVal == 1
MaxLen == 2
MaxHeld == 2
MaxArgs == 1
MaxWrites == 2
NThreads == 2

\* ------------------------------------------------------- program constants
NoOverwrite == -1
OffsetHi == 33052
OffsetLo == 40389
PrimeHi == 256
PrimeLo == 403
Word == 65536

Nil == "nil"
ArityMismatch == "ArityMismatch"

\* ------------------------------------------------------------------ values
Dtypes == {"Float64", "Int"}

\* Dtype is a one-byte enumeration; binary.Write emits that byte.
DtypeByte(t) == IF t = "Float64" THEN 0 ELSE 2

DtypeName(t) == IF t = "Float64" THEN <<70, 108, 111, 97, 116, 54, 52>>
                                 ELSE <<73, 110, 116>>

ScalarShape == <<>>

Prod(s) == IF Len(s) = 0 THEN 1 ELSE IF Len(s) = 1 THEN s[1] ELSE s[1] * s[2]

Shapes == {<<n>> : n \in 1..MaxLen}
          \cup {<<r, c>> : r \in 1..MaxLen, c \in 1..MaxLen}

Datas(n) == [1..n -> 0..MaxVal]

Null == [kind |-> "null", t |-> "", shape |-> <<>>, data |-> <<>>]

ScalarSet == {[kind |-> "scalar", t |-> t, shape |-> ScalarShape, data |-> <<x>>] :
                 t \in Dtypes, x \in 0..MaxVal}

TensorSet == UNION {{[kind |-> "tensor", t |-> t, shape |-> s, data |-> d] :
                        t \in Dtypes, d \in Datas(Prod(s))} :
                    s \in {sh \in Shapes : Prod(sh) <= MaxLen}}

ConstSet == ScalarSet \cup TensorSet

\* the values filled with one element value
Filled == {x \in ConstSet : \A k \in DOMAIN x.data : x.data[k] = x.data[1]}

\* ------------------------------------------------------------------- state
VARIABLES
    ops,     \* the operators under test: ops[i] = [kind, v], v the address of the wrapped value
    heap,    \* storage cells: address -> content
    held,    \* values the caller keeps from Do() / Value(): slot -> handle
    last,    \* the call made last, with its arguments
    res,     \* what that call returned
    v0,      \* the contents of the values the operators were constructed around
    dig,     \* a digest owned by the caller, passed to WriteHash
    hc,      \* per operator, the code its latest Hashcode() call returned, and the bytes hashed
    pc,      \* per thread, its position in the call it is running
    cur,     \* per thread, the method it is running
    digs,    \* digests used by the threads' hashing calls
    tres     \* per thread, the result of the call it finished last

vars == <<ops, heap, held, last, res, v0, dig, hc, pc, cur, digs, tres>>

OpAddrs == 1..2
Slots == 1..MaxHeld
Addrs == 1..(2 + MaxHeld)
BoxAddrs == Addrs \ OpAddrs
BoxOf(s) == 2 + s
Threads == 1..NThreads
Nodes == {"nilnode", "n1"}

\* --------------------------------------------------------------- FNV-32a
Bit(a, w) == (a \div w) % 2
XorBit(a, b, w) == ((Bit(a, w) + Bit(b, w)) % 2) * w

\* exclusive or of two 4-bit values, tabulated
XorNibble == [a \in 0..15 |-> [b \in 0..15 |->
                 XorBit(a, b, 1) + XorBit(a, b, 2) + XorBit(a, b, 4) + XorBit(a, b, 8)]]

\* exclusive or of two bytes
XorByte(a, b) == 16 * XorNibble[a \div 16][b \div 16] + XorNibble[a % 16][b % 16]

\* one round of FNV-1a on a 32-bit state kept as two 16-bit halves:
\* hash ^= b; hash *= 16777619 (mod 2^32)
FnvByte(s, b) ==
    LET lo == (s[2] - (s[2] % 256)) + XorByte(s[2] % 256, b)
        pl == lo * PrimeLo
    IN  <<(s[1] * PrimeLo + lo * PrimeHi + (pl \div Word)) % Word, pl % Word>>

\* the rounds over a run of bytes, first half then second half
RECURSIVE FnvBytes(_, _)
FnvBytes(s, bs) ==
    IF Len(bs) = 0 THEN s
    ELSE IF Len(bs) = 1 THEN FnvByte(s, bs[1])
    ELSE LET h == Len(bs) \div 2
             m == FnvBytes(s, SubSeq(bs, 1, h))
         IN  IF m[1] >= 0 THEN FnvBytes(m, SubSeq(bs, h + 1, Len(bs))) ELSE m

New32a == [sum |-> <<OffsetHi, OffsetLo>>, bytes |-> <<>>]

Write(h, bs) == [sum |-> FnvBytes(h.sum, bs), bytes |-> h.bytes \o bs]

Sum32(h) == h.sum

\* ------------------------------------------------------------- formatting
RECURSIVE Digits(_)
Digits(n) == IF n < 10 THEN <<48 + n>> ELSE Digits(n \div 10) \o <<48 + (n % 10)>>

RECURSIVE Join(_, _)
Join(d, sep) == IF Len(d) = 0 THEN <<>>
                ELSE IF Len(d) = 1 THEN Digits(d[1])
                ELSE Digits(d[1]) \o sep \o Join(Tail(d), sep)

Row(d) == <<91>> \o Join(d, <<32>>) \o <<93>>

RECURSIVE Rows(_, _)
Rows(d, c) == IF Len(d) <= c THEN Row(d)
              ELSE Row(SubSeq(d, 1, c)) \o <<10>> \o Rows(SubSeq(d, c + 1, Len(d)), c)

FmtScalar(x) == Digits(x.data[1])

FmtTensor(x) == IF Len(x.shape) = 1 THEN Row(x.data) ELSE Rows(x.data, x.shape[2])

ValueType(x) == IF x.kind = "scalar" THEN [d |-> 0, of |-> x.t]
                                     ELSE [d |-> Len(x.shape), of |-> x.t]

FmtType(ty) == <<84, 101, 110, 115, 111, 114, 45>> \o Digits(ty.d) \o <<32>> \o DtypeName(ty.of)

ConstTag == <<99, 111, 110, 115, 116, 32>>
OfTag == <<111, 102, 32>>

\* ------------------------------------------------------------ constantScalar
constantScalar_Type(c) == ValueType(heap[c.v])
constantScalar_returnsPtr(c) == FALSE
constantScalar_callsExtern(c) == FALSE
constantScalar_overwriteInput(c) == NoOverwrite
constantScalar_DiffWRT(c, i) == <<>>
constantScalar_SymDiffPass(c, inputs, output, grad) == [grads |-> <<grad>>, err |-> Nil]
constantScalar_SymDiff(c, inputs, output, grad) == [grads |-> <<>>, err |-> Nil]
constantScalar_inferShape(c, hint, nodes) == [shape |-> ScalarShape, err |-> Nil]

constantScalar_DoZero(c, args, fresh) ==
    [val |-> [kind |-> "scalar", addr |-> fresh], err |-> Nil,
     heap |-> [heap EXCEPT ![fresh] = [heap[c.v] EXCEPT !.data = <<0>>]]]

\* return c.v: the Scalar struct is copied into the returned Value
constantScalar_Do(c, args, fresh) ==
    [val |-> [kind |-> "scalar", addr |-> fresh], err |-> Nil,
     heap |-> [heap EXCEPT ![fresh] = heap[c.v]]]

constantScalar_ValueAlias(c, fresh) ==
    [val |-> [kind |-> "scalar", addr |-> c.v], heap |-> heap]

constantScalar_Value(c, fresh) ==
    [val |-> [kind |-> "scalar", addr |-> fresh],
     heap |-> [heap EXCEPT ![fresh] = heap[c.v]]]

constantScalar_HashPartsNoType(x) == <<ConstTag, OfTag \o FmtScalar(x)>>

\* the chunks WriteHash feeds to the digest, one per write
constantScalar_HashParts(x) == <<ConstTag, <<DtypeByte(x.t)>>, OfTag \o FmtScalar(x)>>

RECURSIVE WriteAll(_, _)
WriteAll(h, parts) ==
    IF parts = <<>> THEN h
    ELSE LET n == Write(h, Head(parts))
         IN  IF n.sum[1] >= 0 THEN WriteAll(n, Tail(parts)) ELSE n

constantScalar_WriteHash(c, h) == WriteAll(h, constantScalar_HashParts(heap[c.v]))
constantScalar_HashcodeStale(c) == Sum32(constantScalar_WriteHash(c, dig.h))
constantScalar_Hashcode(c) == Sum32(constantScalar_WriteHash(c, New32a))

\* ------------------------------------------------------------ constantTensor
constantTensor_Type(c) == ValueType(heap[c.v])
constantTensor_returnsPtr(c) == TRUE
constantTensor_overwriteInput(c) == NoOverwrite
constantTensor_callsExtern(c) == FALSE
constantTensor_DiffWRTAll(c, i) == [k \in 1..i |-> FALSE]
constantTensor_DiffWRT(c, i) == <<>>
constantTensor_SymDiff(c, inputs, output, grad) == [grads |-> <<>>, err |-> Nil]
constantTensor_inferShapeScalar(c, hint, nodes) == [shape |-> ScalarShape, err |-> Nil]
constantTensor_inferShape(c, hint, nodes) == [shape |-> heap[c.v].shape, err |-> Nil]

constantTensor_DoStrict(c, args, fresh) ==
    IF Len(args) > 0 THEN [val |-> [kind |-> "none", addr |-> 0], err |-> ArityMismatch, heap |-> heap]
    ELSE [val |-> [kind |-> "tensor", addr |-> c.v], err |-> Nil, heap |-> heap]

\* return c.v: the Tensor handed out refers to the operator's own storage
constantTensor_Do(c, args, fresh) ==
    [val |-> [kind |-> "tensor", addr |-> c.v], err |-> Nil, heap |-> heap]

constantTensor_ValueCopy(c, fresh) ==
    [val |-> [kind |-> "tensor", addr |-> fresh],
     heap |-> [heap EXCEPT ![fresh] = heap[c.v]]]

constantTensor_Value(c, fresh) ==
    [val |-> [kind |-> "tensor", addr |-> c.v], heap |-> heap]

constantTensor_HashParts(x) == <<ConstTag \o FmtType(ValueType(x)), FmtTensor(x)>>

constantTensor_WriteHash(c, h) == WriteAll(h, constantTensor_HashParts(heap[c.v]))
constantTensor_Hashcode(c) == Sum32(constantTensor_WriteHash(c, New32a))

\* ------------------------------------------------- dispatch through Op
IsScalar(c) == c.kind = "scalar"
Type(c) == IF IsScalar(c) THEN constantScalar_Type(c) ELSE constantTensor_Type(c)
returnsPtr(c) == IF IsScalar(c) THEN constantScalar_returnsPtr(c) ELSE constantTensor_returnsPtr(c)
callsExtern(c) == IF IsScalar(c) THEN constantScalar_callsExtern(c) ELSE constantTensor_callsExtern(c)
overwriteInput(c) == IF IsScalar(c) THEN constantScalar_overwriteInput(c)
                     ELSE constantTensor_overwriteInput(c)
DiffWRT(c, i) == IF IsScalar(c) THEN constantScalar_DiffWRT(c, i) ELSE constantTensor_DiffWRT(c, i)
SymDiff(c, inputs, output, grad) ==
    IF IsScalar(c) THEN constantScalar_SymDiff(c, inputs, output, grad)
    ELSE constantTensor_SymDiff(c, inputs, output, grad)
inferShape(c, hint, nodes) ==
    IF IsScalar(c) THEN constantScalar_inferShape(c, hint, nodes)
    ELSE constantTensor_inferShape(c, hint, nodes)
Do(c, args, fresh) == IF IsScalar(c) THEN constantScalar_Do(c, args, fresh)
                      ELSE constantTensor_Do(c, args, fresh)
Value(c, fresh) == IF IsScalar(c) THEN constantScalar_Value(c, fresh)
                   ELSE constantTensor_Value(c, fresh)
HashParts(x) == IF x.kind = "scalar" THEN constantScalar_HashParts(x)
                ELSE constantTensor_HashParts(x)
WriteHash(c, h) == IF IsScalar(c) THEN constantScalar_WriteHash(c, h)
                   ELSE constantTensor_WriteHash(c, h)
Hashcode(c) == IF IsScalar(c) THEN constantScalar_Hashcode(c) ELSE constantTensor_Hashcode(c)

\* ------------------------------------------------------------ construction
NoValue == [kind |-> "none", addr |-> 0]
NoHash == [set |-> FALSE, sum |-> <<0, 0>>, bytes |-> <<>>]
Call(m, i, s, n, args) == [m |-> m, op |-> i, slot |-> s, n |-> n, args |-> args, w |-> <<>>]
R0 == [val |-> NoValue, err |-> Nil, shape |-> <<>>, diff |-> <<>>, grads |-> <<>>,
       ty |-> [d |-> 0, of |-> ""], flag |-> FALSE, int |-> 0, sum |-> <<0, 0>>]
T0 == [m |-> "none", r |-> R0, conc |-> FALSE]
Idle == [m |-> "none", k |-> 0]

\* constantScalar{v} / constantTensor{v}: operator i keeps its value at address i
NewConst(x, a) == [kind |-> x.kind, v |-> a]

InitWith(xs) ==
    /\ ops = [i \in DOMAIN xs |-> NewConst(xs[i], i)]
    /\ heap = [a \in Addrs |-> IF a \in DOMAIN xs THEN xs[a] ELSE Null]
    /\ v0 = xs
    /\ held = [s \in Slots |-> NoValue]
    /\ last = Call("init", 0, 0, 0, <<>>)
    /\ res = R0
    /\ dig = [h |-> New32a, by |-> <<>>]
    /\ hc = [i \in DOMAIN xs |-> NoHash]
    /\ pc = [t \in Threads |-> "idle"]
    /\ cur = [t \in Threads |-> Idle]
    /\ digs = [t \in Threads |-> New32a]
    /\ tres = [t \in Threads |-> T0]

\* one constant operator, scalar or tensor
Init == \E x \in Filled : InitWith(<<x>>)

\* two constant operators, for comparing their hashes
InitHash == \E x \in ConstSet, y \in ConstSet : InitWith(<<x, y>>)

OpIds == DOMAIN ops
NodeSeqs == UNION {[1..n -> Nodes] : n \in 0..MaxArgs}
ArgSeqs == UNION {[1..n -> {s \in Slots : held[s] # NoValue}] : n \in 0..MaxArgs}

thrvars == <<pc, cur, digs, tres>>

\* hc keeps the codes Hashcode returned since the caller last did anything but hash
Forgotten == [i \in OpIds |-> NoHash]

\* ------------------------------------------------------------ the calls
TypeCall(i) ==
    /\ res' = [R0 EXCEPT !.ty = Type(ops[i])]
    /\ last' = Call("Type", i, 0, 0, <<>>)
    /\ hc' = Forgotten
    /\ UNCHANGED <<ops, heap, held, v0, dig, thrvars>>

inferShapeCall(i, hint, nodes) ==
    /\ LET r == inferShape(ops[i], hint, nodes)
       IN  res' = [R0 EXCEPT !.shape = r.shape, !.err = r.err]
    /\ last' = Call("inferShape", i, 0, Len(nodes), <<>>)
    /\ hc' = Forgotten
    /\ UNCHANGED <<ops, heap, held, v0, dig, thrvars>>

DiffWRTCall(i, n) ==
    /\ res' = [R0 EXCEPT !.diff = DiffWRT(ops[i], n)]
    /\ last' = Call("DiffWRT", i, 0, n, <<>>)
    /\ hc' = Forgotten
    /\ UNCHANGED <<ops, heap, held, v0, dig, thrvars>>

SymDiffCall(i, inputs, output, grad) ==
    /\ LET r == SymDiff(ops[i], inputs, output, grad)
       IN  res' = [R0 EXCEPT !.grads = r.grads, !.err = r.err]
    /\ last' = Call("SymDiff", i, 0, Len(inputs), <<>>)
    /\ hc' = Forgotten
    /\ UNCHANGED <<ops, heap, held, v0, dig, thrvars>>

returnsPtrCall(i) ==
    /\ res' = [R0 EXCEPT !.flag = returnsPtr(ops[i])]
    /\ last' = Call("returnsPtr", i, 0, 0, <<>>)
    /\ hc' = Forgotten
    /\ UNCHANGED <<ops, heap, held, v0, dig, thrvars>>

callsExternCall(i) ==
    /\ res' = [R0 EXCEPT !.flag = callsExtern(ops[i])]
    /\ last' = Call("callsExtern", i, 0, 0, <<>>)
    /\ hc' = Forgotten
    /\ UNCHANGED <<ops, heap, held, v0, dig, thrvars>>

overwriteInputCall(i) ==
    /\ res' = [R0 EXCEPT !.int = overwriteInput(ops[i])]
    /\ last' = Call("overwriteInput", i, 0, 0, <<>>)
    /\ hc' = Forgotten
    /\ UNCHANGED <<ops, heap, held, v0, dig, thrvars>>

\* v, err := op.Do(args...); the caller keeps v in slot s
DoCall(i, s, args) ==
    /\ held[s] = NoValue
    /\ LET r == Do(ops[i], [k \in DOMAIN args |-> held[args[k]]], BoxOf(s))
       IN  /\ heap' = r.heap
           /\ held' = [held EXCEPT ![s] = r.val]
           /\ res' = [R0 EXCEPT !.val = r.val, !.err = r.err]
    /\ last' = Call("Do", i, s, Len(args), args)
    /\ hc' = Forgotten
    /\ UNCHANGED <<ops, v0, dig, thrvars>>

ValueCall(i, s) ==
    /\ held[s] = NoValue
    /\ LET r == Value(ops[i], BoxOf(s))
       IN  /\ heap' = r.heap
           /\ held' = [held EXCEPT ![s] = r.val]
           /\ res' = [R0 EXCEPT !.val = r.val]
    /\ last' = Call("Value", i, s, 0, <<>>)
    /\ hc' = Forgotten
    /\ UNCHANGED <<ops, v0, dig, thrvars>>

\* the caller writes element k of a value it was handed
MutateCall(s, k, d) ==
    /\ held[s] # NoValue
    /\ k \in DOMAIN heap[held[s].addr].data
    /\ d # heap[held[s].addr].data[k]
    /\ heap' = [heap EXCEPT ![held[s].addr].data[k] = d]
    /\ res' = R0
    /\ last' = [Call("Mutate", 0, s, 0, <<>>) EXCEPT !.w = <<k, d>>]
    /\ hc' = Forgotten
    /\ UNCHANGED <<ops, held, v0, dig, thrvars>>

\* the caller lets go of a value; a boxed copy goes with it
DropCall(s) ==
    /\ held[s] # NoValue
    /\ held' = [held EXCEPT ![s] = NoValue]
    /\ heap' = IF held[s].addr \in BoxAddrs THEN [heap EXCEPT ![held[s].addr] = Null] ELSE heap
    /\ res' = R0
    /\ last' = Call("Drop", 0, s, 0, <<>>)
    /\ hc' = Forgotten
    /\ UNCHANGED <<ops, v0, dig, thrvars>>

\* op.WriteHash(h) with the caller's digest h
WriteHashCall(i) ==
    /\ Len(dig.by) < MaxWrites
    /\ dig' = [h |-> WriteHash(ops[i], dig.h), by |-> Append(dig.by, i)]
    /\ res' = R0
    /\ last' = Call("WriteHash", i, 0, 0, <<>>)
    /\ UNCHANGED <<ops, heap, held, v0, hc, thrvars>>

\* the bytes a digest has been fed are kept with the code it returned
HashcodeCall(i) ==
    /\ LET code == Hashcode(ops[i])
       IN  /\ res' = [R0 EXCEPT !.sum = code]
           /\ hc' = [hc EXCEPT ![i] = [set |-> TRUE, sum |-> code,
                                       bytes |-> WriteHash(ops[i], New32a).bytes]]
    /\ last' = Call("Hashcode", i, 0, 0, <<>>)
    /\ UNCHANGED <<ops, heap, held, v0, dig, thrvars>>

\* ------------------------------------------------- the Op interface, one caller
Next ==
    \/ \E i \in OpIds : TypeCall(i)
    \/ \E i \in OpIds, hint \in Dtypes, nodes \in NodeSeqs : inferShapeCall(i, hint, nodes)
    \/ \E i \in OpIds, n \in 0..MaxArgs : DiffWRTCall(i, n)
    \/ \E i \in OpIds, inputs \in NodeSeqs, output \in Nodes, grad \in Nodes :
          SymDiffCall(i, inputs, output, grad)
    \/ \E i \in OpIds : returnsPtrCall(i)
    \/ \E i \in OpIds : callsExternCall(i)
    \/ \E i \in OpIds : overwriteInputCall(i)
    \/ \E i \in OpIds, s \in Slots, args \in ArgSeqs : DoCall(i, s, args)
    \/ \E i \in OpIds, s \in Slots : ValueCall(i, s)
    \/ \E s \in Slots : DropCall(s)
    \/ \E i \in OpIds : WriteHashCall(i)
    \/ \E i \in OpIds : HashcodeCall(i)

Spec == Init /\ [][Next]_vars

\* ------------------------------- a caller that writes through what it was handed
NextAlias ==
    \/ \E i \in OpIds : returnsPtrCall(i)
    \/ \E i \in OpIds, s \in Slots : DoCall(i, s, <<>>)
    \/ \E i \in OpIds, s \in Slots : ValueCall(i, s)
    \/ \E s \in Slots, k \in 1..MaxLen, d \in 0..MaxVal : MutateCall(s, k, d)
    \/ \E s \in Slots : DropCall(s)
    \/ \E i \in OpIds : HashcodeCall(i)

SpecAlias == Init /\ [][NextAlias]_vars

\* ------------------------------------------------- hashing two operators
NextHash ==
    \/ \E i \in OpIds : WriteHashCall(i)
    \/ \E i \in OpIds : HashcodeCall(i)

SpecHash == InitHash /\ [][NextHash]_vars

\* ------------------------------- several threads calling one operator
seqvars == <<held, last, res, dig, hc>>

DigestShared(t) == 1

\* h := fnv.New32a() is a local of the call: every call hashes into a digest of its own
DigestOf(t) == t

Busy(t) == \E u \in Threads \ {t} : pc[u] # "idle"

Done(t, m, r) ==
    /\ pc[t] = "idle"
    /\ tres' = [tres EXCEPT ![t] = [m |-> m, r |-> r, conc |-> Busy(t)]]
    /\ UNCHANGED <<ops, heap, v0, seqvars, pc, cur, digs>>

TType(t) == Done(t, "Type", [R0 EXCEPT !.ty = Type(ops[1])])

TinferShape(t, hint, nodes) ==
    LET r == inferShape(ops[1], hint, nodes)
    IN  Done(t, "inferShape", [R0 EXCEPT !.shape = r.shape, !.err = r.err])

TDiffWRT(t, n) == Done(t, "DiffWRT", [R0 EXCEPT !.diff = DiffWRT(ops[1], n)])

TSymDiff(t, inputs, output, grad) ==
    LET r == SymDiff(ops[1], inputs, output, grad)
    IN  Done(t, "SymDiff", [R0 EXCEPT !.grads = r.grads, !.err = r.err])

\* Hashcode: h := fnv.New32a(); WriteHash: the caller hands in its own new digest
THashBegin(t, m) ==
    /\ pc[t] = "idle"
    /\ digs' = [digs EXCEPT ![DigestOf(t)] = New32a]
    /\ pc' = [pc EXCEPT ![t] = "write"]
    /\ cur' = [cur EXCEPT ![t] = [m |-> m, k |-> 1]]
    /\ tres' = [tres EXCEPT ![t] = T0]
    /\ UNCHANGED <<ops, heap, v0, seqvars>>

\* one Fprintf / binary.Write of WriteHash
THashWrite(t) ==
    /\ pc[t] = "write"
    /\ LET parts == HashParts(heap[ops[1].v])
           d == DigestOf(t)
       IN  /\ digs' = [digs EXCEPT ![d] = Write(digs[d], parts[cur[t].k])]
           /\ IF cur[t].k = Len(parts)
              THEN /\ pc' = [pc EXCEPT ![t] = "sum"]
                   /\ cur' = cur
              ELSE /\ pc' = pc
                   /\ cur' = [cur EXCEPT ![t].k = @ + 1]
    /\ UNCHANGED <<ops, heap, v0, seqvars, tres>>

\* h.Sum32(); the digest is let go of
THashSum(t) ==
    /\ pc[t] = "sum"
    /\ tres' = [tres EXCEPT ![t] = [m |-> cur[t].m, conc |-> Busy(t),
                                    r |-> [R0 EXCEPT !.sum = Sum32(digs[DigestOf(t)])]]]
    /\ digs' = [digs EXCEPT ![DigestOf(t)] = New32a]
    /\ pc' = [pc EXCEPT ![t] = "idle"]
    /\ cur' = [cur EXCEPT ![t] = Idle]
    /\ UNCHANGED <<ops, heap, v0, seqvars>>

NextConc ==
    \/ \E t \in Threads : TType(t)
    \/ \E t \in Threads, hint \in Dtypes : TinferShape(t, hint, <<>>)
    \/ \E t \in Threads, n \in 0..MaxArgs : TDiffWRT(t, n)
    \/ \E t \in Threads, grad \in Nodes : TSymDiff(t, <<>>, grad, grad)
    \/ \E t \in Threads, m \in {"Hashcode", "WriteHash"} : THashBegin(t, m)
    \/ \E t \in Threads : THashWrite(t)
    \/ \E t \in Threads : THashSum(t)

SpecConc == Init /\ [][NextConc]_vars

\* =================================================================== claims
Called(m) == last.m = m /\ last.op \in OpIds
TheOp == ops[last.op]
Fresh32a(x) == Sum32(WriteAll(New32a, HashParts(x)))

\* C1: Do() with no arguments returns a value equal to the value the operator
\* was constructed around, and a nil error, whatever calls came before; the
\* operator still wraps the value it was constructed with.
C1_RoundTrip ==
    (Called("Do") /\ last.n = 0) =>
        /\ res.err = Nil
        /\ res.val # NoValue
        /\ res.val.kind = v0[last.op].kind
        /\ heap[res.val.addr] = v0[last.op]
        /\ TheOp = NewConst(v0[last.op], last.op)
        /\ heap[TheOp.v] = v0[last.op]
        /\ (~IsScalar(TheOp) => res.val.addr = TheOp.v)

C1_Witness ==
    /\ Called("Do") /\ last.n = 0 /\ res.err = Nil
    /\ Len(dig.by) > 0
    /\ \E s \in Slots \ {last.slot} : held[s] # NoValue
    /\ heap[res.val.addr] = v0[last.op]

\* C2: the tensor constant reports returnsPtr() = true, every value Do() or
\* Value() handed out is the operator's own storage, and a write through one
\* of them shows in the operator's value and in every other value handed out.
C2_Aliasing ==
    \A i \in OpIds : ~IsScalar(ops[i]) =>
        /\ returnsPtr(ops[i]) = TRUE
        /\ \A s \in Slots : held[s] # NoValue => held[s].addr = ops[i].v
        /\ (last.m \in {"Do", "Value"} => res.val.addr = ops[i].v)
        /\ (last.m = "Mutate" =>
               /\ heap[ops[i].v].data[last.w[1]] = last.w[2]
               /\ \A s \in Slots : held[s] # NoValue => heap[held[s].addr].data[last.w[1]] = last.w[2])

C2_Witness ==
    /\ ~IsScalar(ops[1])
    /\ last.m = "Mutate"
    /\ \E s \in Slots : s # last.slot /\ held[s] # NoValue /\ heap[held[s].addr].data[last.w[1]] = last.w[2]
    /\ heap[ops[1].v] # v0[1]

\* C3: the scalar constant reports returnsPtr() = false; what Do() and Value()
\* hand out is a copy of its own, so writing to it changes neither the wrapped
\* literal nor what a later Do(), Value() or Hashcode() returns.
C3_ScalarCopy ==
    \A i \in OpIds : IsScalar(ops[i]) =>
        /\ returnsPtr(ops[i]) = FALSE
        /\ heap[ops[i].v] = v0[i]
        /\ (last.m \in {"Do", "Value"} =>
               /\ res.val # NoValue
               /\ res.val.addr # ops[i].v
               /\ \A s \in Slots \ {last.slot} : held[s].addr # res.val.addr
               /\ heap[res.val.addr] = v0[i])
        /\ (last.m = "Hashcode" => res.sum = Fresh32a(v0[i]))

C3_Witness ==
    /\ IsScalar(ops[1])
    /\ last.m = "Do"
    /\ heap[res.val.addr] = v0[1]
    /\ \E s \in Slots : s # last.slot /\ held[s] # NoValue /\ heap[held[s].addr] # v0[1]

\* C4: two constant operators of the same kind around identical values return
\* the same Hashcode(), whatever Hashcode/WriteHash calls were made between
\* and before them; the code is the FNV-32a sum of what WriteHash writes into
\* a new digest.
C4_HashConsistent ==
    /\ (hc[1].set /\ hc[2].set /\ heap[ops[1].v] = heap[ops[2].v]) => hc[1].sum = hc[2].sum
    /\ \A i \in OpIds : hc[i].set => hc[i].sum = FnvBytes(<<OffsetHi, OffsetLo>>, hc[i].bytes)

C4_Witness ==
    /\ hc[1].set /\ hc[2].set
    /\ heap[ops[1].v] = heap[ops[2].v]
    /\ Len(dig.by) = MaxWrites
    /\ hc[1].sum = hc[2].sum

\* C5: two constant operators whose values differ in kind, element type or
\* content write different bytes into the digest, each starting with the tag,
\* and within the bounded set their Hashcode() differs too.
C5_HashDistinct ==
    /\ \A i \in OpIds : hc[i].set => SubSeq(hc[i].bytes, 1, Len(ConstTag)) = ConstTag
    /\ (hc[1].set /\ hc[2].set /\ heap[ops[1].v] # heap[ops[2].v]) =>
           /\ hc[1].bytes # hc[2].bytes
           /\ hc[1].sum # hc[2].sum

C5_Witness ==
    /\ hc[1].set /\ hc[2].set
    /\ IsScalar(ops[1]) /\ ~IsScalar(ops[2])
    /\ hc[1].bytes # hc[2].bytes

\* C6: on a constant, DiffWRT marks no input as differentiable and SymDiff
\* returns no gradient and no error, for every input count and every nodes.
C6_NonDifferentiable ==
    /\ Called("DiffWRT") => \A k \in DOMAIN res.diff : res.diff[k] = FALSE
    /\ Called("SymDiff") => (res.grads = <<>> /\ res.err = Nil)

C6_Witness == Called("SymDiff") /\ last.n > 0 /\ res.grads = <<>> /\ res.err = Nil

\* C7 as stated: DiffWRT(n) returns a sequence of length n.
C7_LengthIsInputCount == Called("DiffWRT") => Len(res.diff) = last.n

\* C7 as amended: on a constant, DiffWRT(n) returns the empty sequence for
\* every n, so its length is n only for n = 0.
C7_AlwaysEmpty ==
    Called("DiffWRT") => (Len(res.diff) = 0 /\ (Len(res.diff) = last.n <=> last.n = 0))

C7_Witness == Called("DiffWRT") /\ last.n > 0 /\ Len(res.diff) = 0

\* C8: inferShape returns the 0-dimensional shape on a scalar constant and the
\* wrapped tensor's shape on a tensor constant, with no error, whatever hint
\* and nodes it is given.
C8_InferShape ==
    Called("inferShape") =>
        /\ res.err = Nil
        /\ (IsScalar(TheOp) => Len(res.shape) = 0)
        /\ (~IsScalar(TheOp) => res.shape = v0[last.op].shape)

C8_Witness ==
    /\ Called("inferShape") /\ ~IsScalar(TheOp)
    /\ last.n > 0 /\ Len(res.shape) = 2 /\ res.shape = v0[last.op].shape

\* C9: Do on a constant returns the wrapped value and a nil error for any
\* arguments, and leaves every argument as it was; overwriteInput() is -1.
C9_ArgsIgnored ==
    [][last'.m = "Do" =>
        /\ res'.err = Nil
        /\ res'.val # NoValue
        /\ heap'[res'.val.addr] = heap[ops[last'.op].v]
        /\ overwriteInput(ops[last'.op]) = -1
        /\ \A k \in DOMAIN last'.args :
              /\ held'[last'.args[k]] = held[last'.args[k]]
              /\ heap'[held[last'.args[k]].addr] = heap[held[last'.args[k]].addr]]_vars

C9_Witness == Called("Do") /\ last.n > 0 /\ res.err = Nil /\ res.val # NoValue

\* what a call returns when nothing else runs
Alone(m) ==
    CASE m = "Type" -> [R0 EXCEPT !.ty = ValueType(v0[1])]
      [] m = "inferShape" -> [R0 EXCEPT !.shape = v0[1].shape]
      [] m \in {"Hashcode", "WriteHash"} -> [R0 EXCEPT !.sum = Fresh32a(v0[1])]
      [] OTHER -> R0

\* C10: with several threads calling Type, inferShape, DiffWRT, SymDiff,
\* WriteHash and Hashcode on one operator, every call returns what it returns
\* alone, and the operator and its value stay as constructed.
C10_PureUnderThreads ==
    /\ ops[1] = NewConst(v0[1], 1)
    /\ heap[ops[1].v] = v0[1]
    /\ \A t \in Threads : tres[t].m # "none" => tres[t].r = Alone(tres[t].m)

C10_Witness ==
    \E t \in Threads, u \in Threads :
        /\ t # u
        /\ tres[t].m = "Hashcode" /\ tres[t].conc
        /\ pc[u] = "sum" /\ cur[u].m = "WriteHash"
====
